---------------------------- MODULE Spec2Model ----------------------------
(***************************************************************************)
(* A model of src/simulation.py: the constant-product swap calculator      *)
(* (calculate_swap) and the sequential batcher (run_batcher).              *)
(*                                                                         *)
(* Numbers.  The program computes in Python floats: binary floating point, *)
(* every +, -, * and / rounded to the nearest representable value, ties to *)
(* even.  The model keeps that arithmetic and scales the format down: a    *)
(* float is an integer n standing for n / 2^FracBits, representable when   *)
(* |n| has at most Precision significant bits (Python: 53 bits, smallest   *)
(* step 2^-1074).  The exponent range is not bounded above, so inf and nan *)
(* do not arise; the inputs are bounded instead.  The fields are floats as *)
(* the dataclasses annotate them (a caller passing ints gets the same      *)
(* values as long as they stay below 2^53).                                *)
(*                                                                         *)
(* The runs of the driver's own pool and orders (lines 130-144) are        *)
(* computed in the full format instead, binary64 with its 53 bits, on      *)
(* natural numbers of any size; float_format says which format a run is    *)
(* in, and FAdd, FSub, FMul, FDiv, FLess follow it.                        *)
(***************************************************************************)
EXTENDS Integers, Sequences, FiniteSets, TLC

VARIABLES
    heap,            \* the PoolState objects: address -> fields
    pool_at_call,    \* history: the fields of the caller's pool when run_batcher was called
    pool_utxo,       \* run_batcher's parameter: the address of the caller's pool
    current_pool,    \* run_batcher's local: an address, 0 while unbound
    list_of_orders,  \* run_batcher's parameter: the sequence of OrderUTxO
    idx,             \* how many orders the for loop has consumed
    processed_txs,   \* run_batcher's local list of settlement dicts
    amount_out,      \* run_batcher's locals, bound by line 86
    fee,
    status,
    outcomes,        \* history: the triples line 86 has bound, one per iteration
    pc,              \* "start", "loop", "done" or "raised"
    exc,             \* the exception that left run_batcher, "None" otherwise
    float_format,    \* the format the floats of the run are in: "scaled" or "binary64"
    ret              \* run_batcher's return value, once pc = "done"

vars == <<heap, pool_at_call, pool_utxo, current_pool, list_of_orders, idx, processed_txs,
          amount_out, fee, status, outcomes, pc, exc, float_format, ret>>

---------------------------------------------------------------------------
(* Bounds of the model *)

Precision == 3
FracBits == 2
MaxOrders == 2

---------------------------------------------------------------------------
(* Floating-point arithmetic *)

RECURSIVE Pow2(_)
Pow2(k) == IF k <= 0 THEN 1 ELSE 2 * Pow2(k - 1)

RECURSIVE BitLen(_)
BitLen(n) == IF n <= 0 THEN 0 ELSE 1 + BitLen(n \div 2)

Abs(n) == IF n < 0 THEN 0 - n ELSE n

\* a / d (a >= 0, d > 0) rounded to the nearest integer, ties to even
RoundHalfEven(a, d) ==
    LET q == a \div d
        r == a % d
    IN  IF 2 * r > d \/ (2 * r = d /\ q % 2 = 1) THEN q + 1 ELSE q

\* the spacing of the representable values around the magnitude q
Ulp(q) == Pow2(BitLen(q) - Precision)

\* num / den (den # 0) rounded to the nearest representable value
Round(num, den) ==
    LET a == Abs(num)
        d == Abs(den)
        s == Ulp(a \div d)
        m == s * RoundHalfEven(a, d * s)
    IN  IF (num < 0) = (den < 0) THEN m ELSE 0 - m

One == Pow2(FracBits)

---------------------------------------------------------------------------
(* Natural numbers of any size, for the arithmetic of the full format:     *)
(* sequences of limbs, least significant first, no zero limb at the top    *)

Base == Pow2(15)

RECURSIVE NStrip(_)
NStrip(a) ==
    IF a = << >> THEN a
    ELSE IF a[Len(a)] = 0 THEN NStrip(SubSeq(a, 1, Len(a) - 1)) ELSE a

RECURSIVE Nat2N(_)
Nat2N(n) == IF n = 0 THEN << >> ELSE <<n % Base>> \o Nat2N(n \div Base)

RECURSIVE N2Nat(_)
N2Nat(a) == IF a = << >> THEN 0 ELSE a[1] + Base * N2Nat(Tail(a))

Limb(a, i) == IF i <= Len(a) THEN a[i] ELSE 0

RECURSIVE NAddFrom(_, _, _, _)
NAddFrom(a, b, i, c) ==
    IF i > Len(a) /\ i > Len(b) THEN Nat2N(c)
    ELSE <<(Limb(a, i) + Limb(b, i) + c) % Base>>
         \o NAddFrom(a, b, i + 1, (Limb(a, i) + Limb(b, i) + c) \div Base)

NAdd(a, b) == NAddFrom(a, b, 1, 0)

\* a - b for a >= b
RECURSIVE NSubFrom(_, _, _, _)
NSubFrom(a, b, i, borrow) ==
    IF i > Len(a) THEN << >>
    ELSE <<(Base + a[i] - Limb(b, i) - borrow) % Base>>
         \o NSubFrom(a, b, i + 1, IF a[i] - Limb(b, i) - borrow < 0 THEN 1 ELSE 0)

NSub(a, b) == NStrip(NSubFrom(a, b, 1, 0))

RECURSIVE NCmpFrom(_, _, _)
NCmpFrom(a, b, i) ==
    IF i = 0 THEN 0
    ELSE IF a[i] < b[i] THEN 0 - 1
    ELSE IF a[i] > b[i] THEN 1
    ELSE NCmpFrom(a, b, i - 1)

\* -1, 0 or 1 as a is below, equal to or above b
NCmp(a, b) ==
    IF Len(a) < Len(b) THEN 0 - 1
    ELSE IF Len(a) > Len(b) THEN 1
    ELSE NCmpFrom(a, b, Len(a))

\* a * k for 0 <= k < Base
RECURSIVE NMulSmallFrom(_, _, _, _)
NMulSmallFrom(a, k, i, c) ==
    IF i > Len(a) THEN Nat2N(c)
    ELSE <<(a[i] * k + c) % Base>>
         \o NMulSmallFrom(a, k, i + 1, (a[i] * k + c) \div Base)

NMulSmall(a, k) == IF k = 0 THEN << >> ELSE NMulSmallFrom(a, k, 1, 0)

NShiftLimbs(a, n) == IF a = << >> THEN a ELSE [i \in 1..n |-> 0] \o a

RECURSIVE NMulFrom(_, _, _)
NMulFrom(a, b, i) ==
    IF i > Len(b) THEN << >>
    ELSE NAdd(NShiftLimbs(NMulSmall(a, b[i]), i - 1), NMulFrom(a, b, i + 1))

NMul(a, b) == NMulFrom(a, b, 1)

\* a * 2^n
NShl(a, n) == NShiftLimbs(NMulSmall(a, Pow2(n % 15)), n \div 15)

NBitLen(a) == IF a = << >> THEN 0 ELSE 15 * (Len(a) - 1) + BitLen(a[Len(a)])

\* bit i of a, bit 0 the lowest
NBit(a, i) == (Limb(a, i \div 15 + 1) \div Pow2(i % 15)) % 2

\* long division, one bit at a time: q2 and r2 are twice the quotient so far
\* and twice the remainder so far plus the bit brought down
NDivBitWith(b, q2, r2) ==
    IF NCmp(r2, b) >= 0
    THEN [q |-> NAdd(q2, <<1>>), r |-> NSub(r2, b)]
    ELSE [q |-> q2, r |-> r2]

NDivBit(a, b, i, st) ==
    NDivBitWith(b, NMulSmall(st.q, 2),
                NAdd(NMulSmall(st.r, 2), Nat2N(NBit(a, i))))

\* bits hi down to lo of a brought down, from the quotient and remainder st
\* of the bits above hi (the range is halved to keep the evaluation shallow)
RECURSIVE NDivBits(_, _, _, _, _)
NDivBits(a, b, hi, lo, st) ==
    IF hi = lo THEN NDivBit(a, b, hi, st)
    ELSE CHOOSE out \in
            {NDivBits(a, b, (hi + lo) \div 2, lo, upper) :
                upper \in {NDivBits(a, b, hi, (hi + lo) \div 2 + 1, st)}} : TRUE

\* the quotient and the remainder of a by b, b # 0
NDivMod(a, b) ==
    IF a = << >> THEN [q |-> << >>, r |-> << >>]
    ELSE NDivBits(a, b, NBitLen(a) - 1, 0, [q |-> << >>, r |-> << >>])

---------------------------------------------------------------------------
(* Binary64, the format of a Python float: a value is (-1)^neg * m * 2^e   *)
(* with m a natural number of exactly Binary64Precision bits, or zero.     *)
(* The exponent is not bounded: no overflow, no subnormal numbers.         *)

Binary64Precision == 53

Zero64 == [neg |-> FALSE, m |-> << >>, e |-> 0]

\* d is the quotient and remainder of a magnitude by 2 * half: the quotient
\* rounded to nearest, ties to even; sticky says the exact magnitude is a
\* little above the one that was divided
RoundedMantissa(d, half, sticky) ==
    IF \/ NCmp(d.r, half) > 0
       \/ NCmp(d.r, half) = 0 /\ (sticky \/ NBit(d.q, 0) = 1)
    THEN NAdd(d.q, <<1>>)
    ELSE d.q

\* a rounded mantissa that has reached 2^Binary64Precision is halved
Normal64(neg, m, e) ==
    IF NBitLen(m) > Binary64Precision
    THEN [neg |-> neg, m |-> NDivMod(m, <<2>>).q, e |-> e + 1]
    ELSE [neg |-> neg, m |-> m, e |-> e]

RoundDropping(neg, q, sticky, e, drop) ==
    IF drop <= 0
    THEN [neg |-> neg, m |-> NShl(q, 0 - drop), e |-> e + drop]
    ELSE Normal64(neg,
                  RoundedMantissa(NDivMod(q, NShl(<<1>>, drop)),
                                  NShl(<<1>>, drop - 1), sticky),
                  e + drop)

\* the magnitude q * 2^e (a little more when sticky) rounded to binary64
Round64(neg, q, sticky, e) ==
    IF q = << >> THEN Zero64
    ELSE RoundDropping(neg, q, sticky, e, NBitLen(q) - Binary64Precision)

\* the float of an integer literal
F64(n) == Round64(n < 0, Nat2N(Abs(n)), FALSE, 0)

Neg64(x) == IF x.m = << >> THEN x ELSE [x EXCEPT !.neg = ~x.neg]

\* x + y, from their mantissas a and b brought to the common exponent e
AddAligned(x, y, a, b, e) ==
    IF x.neg = y.neg THEN Round64(x.neg, NAdd(a, b), FALSE, e)
    ELSE IF NCmp(a, b) >= 0 THEN Round64(x.neg, NSub(a, b), FALSE, e)
    ELSE Round64(y.neg, NSub(b, a), FALSE, e)

Add64(x, y) ==
    IF x.m = << >> THEN y
    ELSE IF y.m = << >> THEN x
    ELSE IF x.e <= y.e
    THEN AddAligned(x, y, x.m, NShl(y.m, y.e - x.e), x.e)
    ELSE AddAligned(x, y, NShl(x.m, x.e - y.e), y.m, y.e)

Sub64(x, y) == Add64(x, Neg64(y))

Mul64(x, y) == Round64(x.neg # y.neg, NMul(x.m, y.m), FALSE, x.e + y.e)

\* the quotient of x.m * 2^(Binary64Precision + 3) by y.m has more bits than
\* the format keeps; its remainder is the sticky bit
QuotientRounded(neg, d, e) == Round64(neg, d.q, d.r # << >>, e)

\* x / y for y # 0
Div64(x, y) ==
    QuotientRounded(x.neg # y.neg,
                    NDivMod(NShl(x.m, Binary64Precision + 3), y.m),
                    x.e - y.e - (Binary64Precision + 3))

Less64(x, y) == Sub64(x, y).neg

---------------------------------------------------------------------------
(* The arithmetic of a run, in the format the run computes in *)

FAdd(x, y) == IF float_format = "binary64" THEN Add64(x, y) ELSE Round(x + y, 1)
FSub(x, y) == IF float_format = "binary64" THEN Sub64(x, y) ELSE Round(x - y, 1)
FMul(x, y) == IF float_format = "binary64" THEN Mul64(x, y) ELSE Round(x * y, One)
FDiv(x, y) == IF float_format = "binary64" THEN Div64(x, y) ELSE Round(x * One, y)

\* the float of the integer literal n
Float(n) == IF float_format = "binary64" THEN F64(n) ELSE n * One

FLess(x, y) == IF float_format = "binary64" THEN Less64(x, y) ELSE x < y
FIsZero(x) == IF float_format = "binary64" THEN x.m = << >> ELSE x = 0


---------------------------------------------------------------------------
(* Data model: PoolState and OrderUTxO *)

PoolState(a, b, f) == [reserve_a |-> a, reserve_b |-> b, fee_percent |-> f]

constant_k(pool) == FMul(pool.reserve_a, pool.reserve_b)

OrderUTxO(u, t, a, m) ==
    [user_id |-> u, token_in_type |-> t, amount_in |-> a, min_amount_out |-> m]

---------------------------------------------------------------------------
(* calculate_swap *)

reserve_in(pool, order) ==
    IF order.token_in_type = "A" THEN pool.reserve_a ELSE pool.reserve_b

reserve_out(pool, order) ==
    IF order.token_in_type = "A" THEN pool.reserve_b ELSE pool.reserve_a

\* a fee taken as a flat amount instead of a fraction of the input
AmountInLessFlatFee(pool, order) == FSub(order.amount_in, pool.fee_percent)

amount_in_with_fee(pool, order) ==
    FMul(order.amount_in, FSub(Float(1), pool.fee_percent))

numerator(pool, order) ==
    FMul(amount_in_with_fee(pool, order), reserve_out(pool, order))

denominator(pool, order) ==
    FAdd(reserve_in(pool, order), amount_in_with_fee(pool, order))

\* line 57; Python raises ZeroDivisionError when denominator is 0.0
computed_amount_out(pool, order) ==
    FDiv(numerator(pool, order), denominator(pool, order))

\* a slippage check that also turns away an output equal to the minimum
SlippageTooHighOrEqual(out, order) == ~FLess(order.min_amount_out, out)

\* line 60
SlippageTooHigh(out, order) == FLess(out, order.min_amount_out)

fee_paid(pool, order) ==
    FSub(order.amount_in, amount_in_with_fee(pool, order))

\* lines 59-63: the slippage check and the two return statements
SwapResult(pool, order, out) ==
    IF SlippageTooHigh(out, order)
    THEN [raises |-> "None", amount_out |-> Float(0), fee |-> Float(0),
          status |-> "REJECTED_SLIPPAGE_TOO_HIGH"]
    ELSE [raises |-> "None", amount_out |-> out, fee |-> fee_paid(pool, order),
          status |-> "SUCCESS"]

\* a calculate_swap that answers a zero denominator with a zero output
CalculateSwapZeroOutput(pool, order) ==
    IF FIsZero(denominator(pool, order))
    THEN SwapResult(pool, order, Float(0))
    ELSE SwapResult(pool, order, computed_amount_out(pool, order))

calculate_swap(pool, order) ==
    IF FIsZero(denominator(pool, order))
    THEN [raises |-> "ZeroDivisionError", amount_out |-> 0, fee |-> 0,
          status |-> "unset"]
    ELSE SwapResult(pool, order, computed_amount_out(pool, order))

---------------------------------------------------------------------------
(* run_batcher *)

\* an update that credits the pool with the net amount only
UpdatedPoolNet(pool, order, out) ==
    IF order.token_in_type = "A"
    THEN [pool EXCEPT !.reserve_a = FAdd(pool.reserve_a, amount_in_with_fee(pool, order)),
                      !.reserve_b = FSub(pool.reserve_b, out)]
    ELSE [pool EXCEPT !.reserve_b = FAdd(pool.reserve_b, amount_in_with_fee(pool, order)),
                      !.reserve_a = FSub(pool.reserve_a, out)]

\* lines 90-95: the in-place update of the pool object
UpdatedPool(pool, order, out) ==
    IF order.token_in_type = "A"
    THEN [pool EXCEPT !.reserve_a = FAdd(pool.reserve_a, order.amount_in),
                      !.reserve_b = FSub(pool.reserve_b, out)]
    ELSE [pool EXCEPT !.reserve_b = FAdd(pool.reserve_b, order.amount_in),
                      !.reserve_a = FSub(pool.reserve_a, out)]

\* lines 98-104: the settlement dict
SettlementRecord(order, out) ==
    [to |-> order.user_id,
     receive |-> out,
     token |-> IF order.token_in_type = "A" THEN "B" ELSE "A"]

\* an iteration that updates the pool whatever the status
PoolAfterAnyStatus(pool, order, res) == UpdatedPool(pool, order, res.amount_out)

\* lines 88-106: what one iteration does to the pool object
PoolAfter(pool, order, res) ==
    IF res.status = "SUCCESS" THEN UpdatedPool(pool, order, res.amount_out)
    ELSE pool

\* an iteration that puts the new record at the head of the list
TxsAfterAtHead(txs, order, res) ==
    IF res.status = "SUCCESS"
    THEN <<SettlementRecord(order, res.amount_out)>> \o txs
    ELSE txs

\* lines 88-106: what one iteration does to processed_txs
TxsAfter(txs, order, res) ==
    IF res.status = "SUCCESS"
    THEN Append(txs, SettlementRecord(order, res.amount_out))
    ELSE txs

\* a calculate_swap that applies the net input to the pool it is given
PoolPricedInPlace(pool, order) ==
    IF order.token_in_type = "A"
    THEN [pool EXCEPT !.reserve_a = FAdd(pool.reserve_a, amount_in_with_fee(pool, order))]
    ELSE [pool EXCEPT !.reserve_b = FAdd(pool.reserve_b, amount_in_with_fee(pool, order))]

\* lines 34-63: the pool object after the call of calculate_swap, which reads
\* pool.reserve_a, pool.reserve_b and pool.fee_percent and assigns none of them
PoolAfterPricing(pool, order) == pool

\* a batcher that zeroes the amount of the order it has consumed
OrdersWithConsumed(orders, i) == [orders EXCEPT ![i].amount_in = 0]

\* lines 81-106: the order list after the iteration over its i-th order; the
\* loop and calculate_swap read the order's fields and assign none of them
OrdersAfter(orders, i) == orders

\* Python values a call can return: None, or a tuple
None == [is_none |-> TRUE, value |-> << >>]
Tuple(t) == [is_none |-> FALSE, value |-> t]

\* a run_batcher that ends with: return current_pool, processed_txs
ReturnsPair(pool, txs) == Tuple(<<pool, txs>>)

\* run_batcher has no return statement: the call returns None
ReturnValue(pool, txs) == None

\* lines 70-79
Start ==
    /\ pc = "start"
    /\ processed_txs' = << >>
    /\ current_pool' = pool_utxo
    /\ pc' = "loop"
    /\ UNCHANGED <<heap, pool_at_call, pool_utxo, list_of_orders, idx,
                   amount_out, fee, status, outcomes, exc, float_format, ret>>

\* lines 81-106: one iteration of the for loop
ProcessOrder ==
    /\ pc = "loop"
    /\ idx < Len(list_of_orders)
    /\ LET order == list_of_orders[idx + 1]
           pool == PoolAfterPricing(heap[current_pool], list_of_orders[idx + 1])
       IN  \E res \in {calculate_swap(pool, order)} :   \* line 86, called once
           IF res.raises # "None"
           THEN /\ pc' = "raised"
                /\ exc' = res.raises
                /\ heap' = [heap EXCEPT ![current_pool] = pool]
                /\ UNCHANGED <<idx, processed_txs, amount_out, fee, status,
                               outcomes>>
           ELSE /\ amount_out' = res.amount_out
                /\ fee' = res.fee
                /\ status' = res.status
                /\ heap' = [heap EXCEPT
                              ![current_pool] = PoolAfter(pool, order, res)]
                /\ processed_txs' = TxsAfter(processed_txs, order, res)
                /\ outcomes' = Append(outcomes,
                                      [amount_out |-> res.amount_out,
                                       fee |-> res.fee,
                                       status |-> res.status])
                /\ idx' = idx + 1
                /\ UNCHANGED <<pc, exc>>
    /\ list_of_orders' = OrdersAfter(list_of_orders, idx + 1)
    /\ UNCHANGED <<pool_at_call, pool_utxo, current_pool, float_format, ret>>

\* lines 108-125: the loop is exhausted, the outputs are printed, the call returns
Finish ==
    /\ pc = "loop"
    /\ idx = Len(list_of_orders)
    /\ pc' = "done"
    /\ ret' = ReturnValue(heap[current_pool], processed_txs)
    /\ UNCHANGED <<heap, pool_at_call, pool_utxo, current_pool, list_of_orders,
                   idx, processed_txs, amount_out, fee, status, outcomes, exc,
                   float_format>>

Next == Start \/ ProcessOrder \/ Finish

---------------------------------------------------------------------------
(* Inputs *)

Users == {"Alice", "Bob"}

\* the pools and orders of the data model: positive reserves, fee in [0,1),
\* token A or B, non-negative amounts
ReserveInputs == {One, 4 * One}
FeeInputs == {0, One \div 4}
AmountInputs == {0, One, 16 * One}
MinInputs == {0, 2 * One}

PoolInputs ==
    {PoolState(a, b, f) : a \in ReserveInputs, b \in ReserveInputs, f \in FeeInputs}

OrderInputs ==
    {OrderUTxO(u, t, a, m) :
        u \in Users, t \in {"A", "B"}, a \in AmountInputs, m \in MinInputs}

\* what the constructors also accept: the dataclasses validate nothing
BadPoolInputs ==
    {PoolState(0, One, 0), PoolState(One, 0 - One, One \div 4),
     PoolState(One, 4 * One, One), PoolState(4 * One, One, 0 - One)}

BadOrderInputs ==
    {OrderUTxO("Alice", "C", One, 0),
     OrderUTxO("Bob", "A", 0 - One, 0 - (4 * One)),
     OrderUTxO("Alice", "B", One, 0 - One)}

SeqsUpTo(S, n) == UNION {[1..k -> S] : k \in 0..n}

InitWith(format, pools, lists) ==
    /\ float_format = format
    /\ heap \in {(1 :> p) : p \in pools}
    /\ pool_at_call = heap[1]
    /\ pool_utxo = 1
    /\ current_pool = 0
    /\ list_of_orders \in lists
    /\ idx = 0
    /\ processed_txs = << >>
    /\ amount_out = 0
    /\ fee = 0
    /\ status = "unset"
    /\ outcomes = << >>
    /\ pc = "start"
    /\ exc = "None"
    /\ ret = None

Init == InitWith("scaled", PoolInputs, SeqsUpTo(OrderInputs, MaxOrders))

Spec == Init /\ [][Next]_vars

InitAnyInput ==
    InitWith("scaled", PoolInputs \cup BadPoolInputs,
             SeqsUpTo(OrderInputs \cup BadOrderInputs, MaxOrders))

SpecAnyInput == InitAnyInput /\ [][Next]_vars

\* lines 130-144: the pool and the orders of the driver, in binary64; the fee
\* is the default of line 13, the float nearest to 0.003
ReferencePool == PoolState(F64(1000), F64(2000), Div64(F64(3), F64(1000)))

ReferenceOrders ==
    <<OrderUTxO("Alice", "A", F64(100), F64(180)),
      OrderUTxO("Bob", "A", F64(500), F64(900)),
      OrderUTxO("Charlie", "B", F64(50), F64(20))>>

\* the driver's list, and every other list of its orders that is no longer
ReferenceLists ==
    SeqsUpTo({ReferenceOrders[i] : i \in 1..Len(ReferenceOrders)},
             Len(ReferenceOrders))

InitReference == InitWith("binary64", {ReferencePool}, ReferenceLists)

SpecReference == InitReference /\ [][Next]_vars

---------------------------------------------------------------------------
(* Vocabulary of the properties *)

\* the pool object run_batcher works on
ThePool == heap[pool_utxo]

\* the order the next iteration prices, and the one the last iteration priced
NextOrder == list_of_orders[idx + 1]
LastOrder == list_of_orders[idx]

\* this step is an iteration of the loop that ran to its end
Iterated == pc = "loop" /\ idx' = idx + 1

Succeeded == Iterated /\ status' = "SUCCESS"
Rejected == Iterated /\ status' = "REJECTED_SLIPPAGE_TOO_HIGH"

\* the loop is about to price an order
AtOrder == pc = "loop" /\ idx < Len(list_of_orders)

---------------------------------------------------------------------------
(* C1 *)

\* C1: every successful swap leaves the product reserve_a * reserve_b at least
\* as large as before, and strictly larger when the fee rate and amount_in
\* are positive.
C1_ProductNeverDecreases ==
    [][Succeeded =>
        /\ constant_k(ThePool') >= constant_k(ThePool)
        /\ (ThePool.fee_percent > 0 /\ NextOrder.amount_in > 0
               => constant_k(ThePool') > constant_k(ThePool))]_vars

---------------------------------------------------------------------------
(* C2 *)

\* C2: on SUCCESS the reserve of the order's input token becomes
\* reserve + order.amount_in (the full amount, fee included), the other reserve
\* becomes reserve - amount_out with the amount_out calculate_swap returned,
\* both as floating-point operations, and nothing else of the pool changes.
C2_SuccessMovesFullAmount ==
    [][Succeeded =>
        /\ DOMAIN heap' = DOMAIN heap
        /\ ThePool'.fee_percent = ThePool.fee_percent
        /\ NextOrder.token_in_type = "A" =>
              /\ ThePool'.reserve_a = FAdd(ThePool.reserve_a, NextOrder.amount_in)
              /\ ThePool'.reserve_b = FSub(ThePool.reserve_b, amount_out')
        /\ NextOrder.token_in_type = "B" =>
              /\ ThePool'.reserve_b = FAdd(ThePool.reserve_b, NextOrder.amount_in)
              /\ ThePool'.reserve_a = FSub(ThePool.reserve_a, amount_out')]_vars

\* a swap of a positive amount under a positive fee has succeeded and paid out
C2_Witness ==
    /\ idx >= 1
    /\ status = "SUCCESS"
    /\ LastOrder.amount_in > 0
    /\ ThePool.fee_percent > 0
    /\ fee > 0
    /\ amount_out > 0

---------------------------------------------------------------------------
(* C3 *)

\* C3: from a valid pool and orders with non-negative amount_in both reserves
\* stay strictly positive: every successful swap pays out strictly less than
\* the out-token reserve.
C3_ReservesStayPositive ==
    [][/\ ThePool'.reserve_a > 0
       /\ ThePool'.reserve_b > 0
       /\ Succeeded => amount_out' < reserve_out(ThePool, NextOrder)]_vars

---------------------------------------------------------------------------
(* C4 *)

\* C4: calculate_swap answers REJECTED_SLIPPAGE_TOO_HIGH exactly when the
\* amount_out it computed is strictly below order.min_amount_out, and SUCCESS
\* otherwise: an amount_out equal to min_amount_out is a SUCCESS.
C4_RejectedIffBelowMinimum ==
    [][Iterated =>
        LET out == computed_amount_out(ThePool, NextOrder)
        IN  /\ status' = "REJECTED_SLIPPAGE_TOO_HIGH"
                 <=> out < NextOrder.min_amount_out
            /\ status' = "SUCCESS" <=> out >= NextOrder.min_amount_out]_vars

\* an order has succeeded with an output equal to its positive minimum
C4_Witness ==
    /\ idx >= 1
    /\ status = "SUCCESS"
    /\ LastOrder.min_amount_out > 0
    /\ amount_out = LastOrder.min_amount_out

---------------------------------------------------------------------------
(* C5 *)

\* C5: an iteration whose outcome is the slippage rejection leaves reserve_a,
\* reserve_b and the fee rate of the pool as they were and appends no
\* settlement record.
C5_RejectionChangesNothing ==
    [][Rejected =>
        /\ heap' = heap
        /\ processed_txs' = processed_txs]_vars

\* an order with a positive amount_in has been rejected
C5_Witness ==
    /\ idx >= 1
    /\ status = "REJECTED_SLIPPAGE_TOO_HIGH"
    /\ LastOrder.amount_in > 0

---------------------------------------------------------------------------
(* C6 *)

\* the positions of the orders priced so far whose outcome was SUCCESS
SuccessPositions == {i \in 1..Len(outcomes) : outcomes[i].status = "SUCCESS"}

\* the position of the k-th successful order
KthSuccess(k) ==
    CHOOSE i \in SuccessPositions :
        Cardinality({j \in SuccessPositions : j <= i}) = k

Opposite(token) == IF token = "A" THEN "B" ELSE "A"

\* C6: the settlement list holds one record per successful order and none for
\* a rejected one, in the order of the originating orders; each record names
\* the order's user, the token opposite to the order's input token and the
\* amount_out computed for that order.
C6_OneRecordPerSuccessInOrder ==
    /\ Len(outcomes) = idx
    /\ Len(processed_txs) = Cardinality(SuccessPositions)
    /\ \A k \in 1..Len(processed_txs) :
          LET i == KthSuccess(k)
          IN  /\ processed_txs[k].to = list_of_orders[i].user_id
              /\ processed_txs[k].token = Opposite(list_of_orders[i].token_in_type)
              /\ processed_txs[k].receive = outcomes[i].amount_out

\* a finished run of two successful orders of different users and tokens
C6_Witness ==
    /\ pc = "done"
    /\ Len(processed_txs) = 2
    /\ processed_txs[1].to # processed_txs[2].to
    /\ processed_txs[1].token # processed_txs[2].token
    /\ processed_txs[1].receive > 0

---------------------------------------------------------------------------
(* C7 *)

\* C7: when the in-token reserve and the net input are both zero, pricing the
\* order fails with an InvalidPool error and no division by zero happens.
C7_ZeroDenominatorIsInvalidPool ==
    [][(/\ AtOrder
        /\ reserve_in(ThePool, NextOrder) = 0
        /\ amount_in_with_fee(ThePool, NextOrder) = 0)
         => (pc' = "raised" /\ exc' = "InvalidPool")]_vars

---------------------------------------------------------------------------
(* C8 *)

InvalidOrderAmounts(order) == order.amount_in < 0 \/ order.min_amount_out < 0

InvalidPoolFields(pool) ==
    \/ pool.fee_percent < 0
    \/ pool.fee_percent >= One
    \/ pool.reserve_a <= 0
    \/ pool.reserve_b <= 0

\* C8: an order with a negative amount_in or min_amount_out, or a pool with a
\* fee rate outside [0,1) or a non-positive reserve, is refused with an error
\* (whatever its name): no amount_out is computed for it, no SUCCESS outcome
\* is returned and no reserve changes.
C8_InvalidInputIsRefused ==
    [][(AtOrder /\ (InvalidOrderAmounts(NextOrder) \/ InvalidPoolFields(ThePool)))
         => /\ pc' = "raised"
            /\ heap' = heap
            /\ outcomes' = outcomes]_vars

---------------------------------------------------------------------------
(* C9 *)

\* C9: an order whose input token is neither "A" nor "B" is refused with an
\* error (whatever its name) that ends the run: it is not priced, it changes
\* no reserve and it adds no settlement record.
C9_UnknownTokenIsRefused ==
    [][(AtOrder /\ NextOrder.token_in_type \notin {"A", "B"})
         => /\ pc' = "raised"
            /\ heap' = heap
            /\ outcomes' = outcomes
            /\ processed_txs' = processed_txs]_vars

---------------------------------------------------------------------------
(* C10 *)

---------------------------------------------------------------------------
(* C11 *)

\* C11: calculate_swap is pure: a step that only prices an order (one that is
\* rejected, or one that raises) leaves reserve_a, reserve_b and the fee rate
\* as they were, a successful step changes the pool by the batcher's own
\* update of the pool as it was before the call and by nothing else, and no
\* step changes a field of an order.
C11_PricingMutatesNoInput ==
    [][/\ list_of_orders' = list_of_orders
       /\ (Rejected \/ pc' = "raised") => heap' = heap
       /\ Succeeded => ThePool' = UpdatedPool(ThePool, NextOrder, amount_out')]_vars

\* a finished run that priced two orders, the last of a positive amount, and
\* accepted none
C11_Witness ==
    /\ pc = "done"
    /\ Len(list_of_orders) = 2
    /\ processed_txs = << >>
    /\ LastOrder.amount_in > 0
    /\ ThePool.fee_percent > 0

---------------------------------------------------------------------------
(* C12 *)

\* C12: run_batcher works on a copy: the caller's PoolState object holds, at
\* every point of the run and after it, the reserve_a and reserve_b it held
\* when run_batcher was called.
C12_CallersPoolUntouched ==
    /\ heap[pool_utxo].reserve_a = pool_at_call.reserve_a
    /\ heap[pool_utxo].reserve_b = pool_at_call.reserve_b

---------------------------------------------------------------------------
(* C15 *)

TerminalStatuses == {"SUCCESS", "REJECTED_SLIPPAGE_TOO_HIGH"}

\* C15: the orders are processed in input order, once each: the orders
\* consumed so far have one terminal outcome each and the others none, and a
\* run that has ended has ended normally with every order of the list in a
\* terminal outcome.
C15_EveryOrderReachesAnOutcome ==
    /\ Len(outcomes) = idx
    /\ \A i \in 1..Len(outcomes) : outcomes[i].status \in TerminalStatuses
    /\ pc \notin {"start", "loop"} =>
          (pc = "done" /\ Len(outcomes) = Len(list_of_orders))

---------------------------------------------------------------------------
(* C17 *)

\* C17: for an order with amount_in = 0 (and a minimum of the data model, not
\* negative) against a pool with positive reserves the computed amount_out is
\* 0, the order is a SUCCESS exactly when min_amount_out = 0 and rejected for
\* every min_amount_out > 0, and the reserves keep their values.
C17_ZeroAmountOrder ==
    [][(/\ AtOrder
        /\ NextOrder.amount_in = 0
        /\ NextOrder.min_amount_out >= 0
        /\ ThePool.reserve_a > 0
        /\ ThePool.reserve_b > 0)
         => /\ Iterated
            /\ computed_amount_out(ThePool, NextOrder) = 0
            /\ status' = "SUCCESS" <=> NextOrder.min_amount_out = 0
            /\ NextOrder.min_amount_out > 0 => status' = "REJECTED_SLIPPAGE_TOO_HIGH"
            /\ amount_out' = 0
            /\ heap' = heap]_vars

\* an order of amount 0 and minimum 0 has succeeded on a pool with a fee
C17_Witness ==
    /\ idx >= 1
    /\ LastOrder.amount_in = 0
    /\ LastOrder.min_amount_out = 0
    /\ status = "SUCCESS"
    /\ ThePool.fee_percent > 0
    /\ ThePool.reserve_a > 0
    /\ ThePool.reserve_b > 0

---------------------------------------------------------------------------
(* C18 *)

---------------------------------------------------------------------------
(* C20 *)

\* the first two orders are a round trip: all of the first order's output is
\* sent back as the second order's input, both without a minimum
RoundTrip ==
    /\ Len(outcomes) >= 2
    /\ list_of_orders[1].token_in_type \in {"A", "B"}
    /\ list_of_orders[2].token_in_type = Opposite(list_of_orders[1].token_in_type)
    /\ list_of_orders[1].amount_in > 0
    /\ list_of_orders[1].min_amount_out = 0
    /\ list_of_orders[2].min_amount_out = 0
    /\ outcomes[1].status = "SUCCESS"
    /\ outcomes[2].status = "SUCCESS"
    /\ list_of_orders[2].amount_in = outcomes[1].amount_out

\* C20: a round trip on a valid pool gives back at most the amount first put
\* in, and strictly less when the fee rate is positive.
C20_RoundTripNeverProfitable ==
    RoundTrip =>
        /\ outcomes[2].amount_out <= list_of_orders[1].amount_in
        /\ pool_at_call.fee_percent > 0 =>
              outcomes[2].amount_out < list_of_orders[1].amount_in

---------------------------------------------------------------------------
(* C16 *)

RemoveAt(s, i) == SubSeq(s, 1, i - 1) \o SubSeq(s, i + 1, Len(s))

\* lines 81-106 on one order, from the result of the orders before it
ReplayOrder(acc, order) ==
    IF acc.exc # "None" THEN acc
    ELSE LET res == calculate_swap(acc.pool, order)
         IN  IF res.raises # "None"
             THEN [acc EXCEPT !.exc = res.raises]
             ELSE [pool |-> PoolAfter(acc.pool, order, res),
                   txs |-> TxsAfter(acc.txs, order, res),
                   outcomes |-> Append(acc.outcomes,
                                       [amount_out |-> res.amount_out,
                                        fee |-> res.fee,
                                        status |-> res.status]),
                   exc |-> "None"]

RECURSIVE ReplayFrom(_, _, _)
ReplayFrom(acc, orders, i) ==
    IF i > Len(orders) THEN acc
    ELSE ReplayFrom(ReplayOrder(acc, orders[i]), orders, i + 1)

\* lines 69-106: a whole run of run_batcher on a pool and an order list
Replay(pool, orders) ==
    ReplayFrom([pool |-> pool, txs |-> << >>, outcomes |-> << >>,
                exc |-> "None"], orders, 1)

\* C16: when a run has ended and its order i was rejected for slippage, the
\* run on the same pool of the list without order i gives every other order
\* the same outcome and amount_out, the same settlement sequence and the same
\* final reserves.
C16_RejectedOrderCanBeRemoved ==
    pc \in {"done", "raised"} =>
        \A i \in 1..Len(outcomes) :
            outcomes[i].status = "REJECTED_SLIPPAGE_TOO_HIGH" =>
                \E without \in {Replay(pool_at_call, RemoveAt(list_of_orders, i))} :
                    /\ without.outcomes = RemoveAt(outcomes, i)
                    /\ without.txs = processed_txs
                    /\ without.pool = ThePool
                    /\ without.exc = exc

\* a run has ended whose first order was rejected and whose second order, a
\* success with a positive output, came after it
C16_Witness ==
    /\ pc = "done"
    /\ Len(outcomes) = 2
    /\ outcomes[1].status = "REJECTED_SLIPPAGE_TOO_HIGH"
    /\ outcomes[2].status = "SUCCESS"
    /\ outcomes[2].amount_out > 0

---------------------------------------------------------------------------
(* C19 *)

\* the sum of amount_in over the successful orders among the first n whose
\* input token is T, as an exact number
RECURSIVE SumIn(_, _)
SumIn(T, n) ==
    IF n = 0 THEN 0
    ELSE SumIn(T, n - 1)
         + (IF /\ outcomes[n].status = "SUCCESS"
               /\ list_of_orders[n].token_in_type = T
            THEN list_of_orders[n].amount_in ELSE 0)

\* the sum of the amounts received over the first n settlement records whose
\* token is T, as an exact number
RECURSIVE SumReceived(_, _)
SumReceived(T, n) ==
    IF n = 0 THEN 0
    ELSE SumReceived(T, n - 1)
         + (IF processed_txs[n].token = T THEN processed_txs[n].receive ELSE 0)

Reserve(pool, T) == IF T = "A" THEN pool.reserve_a ELSE pool.reserve_b

\* C19: after any number of orders, for each token the reserve equals the
\* reserve at the call plus the inputs of the successful orders in that token
\* minus the amounts paid out in that token; rejected orders count in neither
\* sum.
C19_TokensAreConserved ==
    \A T \in {"A", "B"} :
        Reserve(ThePool, T) = Reserve(pool_at_call, T)
                                + SumIn(T, Len(outcomes))
                                - SumReceived(T, Len(processed_txs))

---------------------------------------------------------------------------
(* C13, C14 *)

\* a binary64 value rounded to two decimal places, in hundredths
Hundredths(x) ==
    IF x.e >= 0 THEN NShl(NMulSmall(x.m, 100), x.e)
    ELSE RoundedMantissa(NDivMod(NMulSmall(x.m, 100), NShl(<<1>>, 0 - x.e)),
                         NShl(<<1>>, 0 - x.e - 1), FALSE)

Cents(x) == IF x.neg THEN 0 - N2Nat(Hundredths(x)) ELSE N2Nat(Hundredths(x))

Alice == ReferenceOrders[1]
Bob == ReferenceOrders[2]
Charlie == ReferenceOrders[3]

\* the reference pool after Alice's order, from the amount she was given
PostAlicePool == UpdatedPool(ReferencePool, Alice, outcomes[1].amount_out)

\* C13: in the run of the reference batch Alice succeeds; Bob is rejected,
\* his computed output being about 567 and below 900, and the pool stays at
\* its reserves after Alice; Charlie succeeds, priced against that pool, with
\* an amount_out of 29.35 to two decimal places; the settlements are exactly
\* two, Alice receiving token B and then Charlie receiving token A.
C13_ReferenceBatch ==
    list_of_orders = ReferenceOrders =>
        /\ idx >= 1 => outcomes[1].status = "SUCCESS"
        /\ idx >= 2 =>
              /\ outcomes[2].status = "REJECTED_SLIPPAGE_TOO_HIGH"
              /\ Cents(computed_amount_out(PostAlicePool, Bob)) \in 56650..56749
              /\ FLess(computed_amount_out(PostAlicePool, Bob), Bob.min_amount_out)
        /\ idx = 2 => ThePool = PostAlicePool
        /\ idx = 3 =>
              /\ outcomes[3].status = "SUCCESS"
              /\ outcomes[3].amount_out = calculate_swap(PostAlicePool, Charlie).amount_out
              /\ Cents(outcomes[3].amount_out) = 2935
              /\ processed_txs =
                    <<[to |-> "Alice", receive |-> outcomes[1].amount_out, token |-> "B"],
                      [to |-> "Charlie", receive |-> outcomes[3].amount_out, token |-> "A"]>>

\* the run of the reference batch has ended with two settlements
C13_Witness ==
    /\ pc = "done"
    /\ list_of_orders = ReferenceOrders
    /\ Len(processed_txs) = 2

\* the state after Alice's order has been processed first on the reference pool
AliceDone == idx = 1 /\ list_of_orders[1] = Alice

\* C14 as stated: Alice's order on the reference pool is a SUCCESS with
\* amount_out 181.23 to two decimal places, and leaves reserve_a = 1100.00 and
\* reserve_b = 1818.77.
C14_AliceAsStated ==
    AliceDone =>
        /\ outcomes[1].status = "SUCCESS"
        /\ Cents(outcomes[1].amount_out) = 18123
        /\ Cents(ThePool.reserve_a) = 110000
        /\ Cents(ThePool.reserve_b) = 181877

\* C14, amended: Alice's order on the reference pool is a SUCCESS with
\* amount_out 181.32 to two decimal places, and leaves reserve_a = 1100.00 and
\* reserve_b = 1818.68.
C14_AliceOutcome ==
    AliceDone =>
        /\ outcomes[1].status = "SUCCESS"
        /\ Cents(outcomes[1].amount_out) = 18132
        /\ Cents(ThePool.reserve_a) = 110000
        /\ Cents(ThePool.reserve_b) = 181868

C14_Witness == AliceDone /\ status = "SUCCESS" /\ Len(processed_txs) = 1

=============================================================================
